---------------------------- MODULE Spec2Model ----------------------------
(***************************************************************************)
(* Model of the serverless-clamscan scan function                          *)
(* (src/assets/lambda/code/scan/lambda.py).                                *)
(*                                                                         *)
(* One invocation of lambda_handler is a process whose program counter     *)
(* walks through the handler; every call that leaves the process (S3       *)
(* tagging, S3 download, the file system on EFS, 7za, freshclam, clamscan) *)
(* is one step, so that invocations can interleave at exactly those        *)
(* points.  The S3 object (its versions and tags), the EFS file system,    *)
(* the clock and the module-level last_update_time are shared.             *)
(***************************************************************************)
EXTENDS Integers, Sequences, FiniteSets, TLC

\* ------------------------------------------------------------------ constants
INPROGRESS == "IN PROGRESS"
CLEAN == "CLEAN"
DELETED == "DELETED"
INFECTED == "INFECTED"
ERROR == "ERROR"
SKIP == "N/A"

\* MAX_BYTES = 4000000000 bytes; sizes are counted in units of 1000 bytes,
\* since the integers of TLC are 32 bits wide
MAX_BYTES == 4000000

REFRESH_INTERVAL == 3600

\* Python's None, and a dictionary key that is not present.
None == "None"

\* ------------------------------------------------------------------ bounds
\* time.time() of the first step, seconds since the epoch
EpochStart == 1700000000
\* the clock runs up to EpochStart + MaxElapsed
MaxElapsed == 3600
\* failures of the environment (client errors, OS errors, unexpected exit
\* codes) in the calls of overlapping invocations
MaxFaults == 1
\* amounts by which the clock advances in one step
ClockSteps == {1800}

\* aws_request_id of the invocations, in the order the host dispatches them
InvOrder == <<"r1", "r2">>

Invs == { InvOrder[k] : k \in 1..Len(InvOrder) }
\* versions of the one S3 object the events are about
Versions == {"v1", "v2"}
\* versionId field of an event: absent, the literal "null", or a version
EventVersionIds == {"absent", "null", "v1"}
\* object keys as they arrive in the event (url-encoded), one token per
\* character; "%2F" is the encoding of "/"
RawKeys == { <<"f">>, <<"d", "/", "f">>, <<"d", "%2F">> }
\* declared object sizes (units of 1000 bytes)
Sizes == {MAX_BYTES, MAX_BYTES + 1}
\* what 7za can leave in the payload directory: member name -> size
Extractions ==
    { <<[name |-> "m1", size |-> 10]>>,
      <<[name |-> "m1", size |-> MAX_BYTES + 1]>>,
      <<[name |-> "m1", size |-> MAX_BYTES], [name |-> "m2", size |-> MAX_BYTES + 5]>> }
\* exit codes of 7za and clamscan
ExitCodes == {0, 1, 2}
\* exit codes of freshclam
FreshclamExitCodes == {0, 1}

\* ------------------------------------------------------------------ state
VARIABLES
    pc,                 \* position of each invocation in lambda_handler
    event,              \* the S3 event record of each invocation
    loc,                \* local variables of each invocation
    calls,              \* calls each invocation has issued, in order
    result,             \* how each invocation ended
    tags,               \* tag set of each version of the object
    latest,             \* the version an unversioned S3 call resolves to
    dirs,               \* directories that exist under the EFS mount
    files,              \* files that exist under the EFS mount
    conf,               \* /tmp/freshclam.conf exists
    last_update_time,   \* module global of lambda.py
    now,                \* time.time()
    tagAtEnd,           \* scan-status of the event's object when the invocation ended
    lastRefreshOk,      \* current_time of the last freshclam run that exited 0
    upd,                \* the invocation of download_defs/lambda.py
    tmp_files,          \* files under /tmp of the download function
    defs_bucket,        \* objects of the definitions bucket
    cr                  \* the request initialize_defs_cr/lambda.py works on

\* the state of the scan function
scanVars == << pc, event, loc, calls, result, tags, latest, dirs, files,
               conf, last_update_time, now, tagAtEnd, lastRefreshOk >>

\* the state of the definition download function and of the custom resource
defsVars == << upd, tmp_files, defs_bucket, cr >>

vars == << pc, event, loc, calls, result, tags, latest, dirs, files,
           conf, last_update_time, now, tagAtEnd, lastRefreshOk,
           upd, tmp_files, defs_bucket, cr >>

\* ------------------------------------------------------------------ keys
\* urllib.parse.unquote_plus, token by token
UnquoteToken(t) == IF t = "%2F" THEN "/" ELSE IF t = "+" THEN " " ELSE t

unquote_plus(raw) == [k \in 1..Len(raw) |-> UnquoteToken(raw[k])]

\* str.endswith("/")
EndsWithSlash(key) == Len(key) > 0 /\ key[Len(key)] = "/"

\* position of the last "/" of key, 0 when there is none
LastSlash(key) ==
    IF \E k \in 1..Len(key) : key[k] = "/"
    THEN CHOOSE k \in 1..Len(key) :
            key[k] = "/" /\ \A m \in (k+1)..Len(key) : key[m] # "/"
    ELSE 0

\* os.path.dirname for the keys of the model (no leading or doubled "/")
Dirname(key) == IF LastSlash(key) = 0 THEN <<>> ELSE SubSeq(key, 1, LastSlash(key) - 1)

\* ------------------------------------------------------------------ paths
\* A path under the mount: the top directory (root, rid) and the part below it.
payload_path(i) == [root |-> "payload", rid |-> i, rel |-> <<>>]

tmp_path(i) == [root |-> "tmp", rid |-> i, rel |-> <<>>]

definitions_path == [root |-> "defs", rid |-> "-", rel |-> <<>>]

NoPath == [root |-> "none", rid |-> "-", rel |-> <<>>]

\* os.path.join(path, sub) and f"{path}/{key}"
Join(path, sub) ==
    [path EXCEPT !.rel = IF @ = <<>> THEN sub ELSE @ \o <<"/">> \o sub]

IsPrefix(s, t) == Len(s) <= Len(t) /\ SubSeq(t, 1, Len(s)) = s

\* p is q or lies below q
Under(p, q) ==
    /\ p.root = q.root
    /\ p.rid = q.rid
    /\ \/ q.rel = <<>>
       \/ p.rel = q.rel
       \/ IsPrefix(q.rel \o <<"/">>, p.rel)

\* the directories os.makedirs(path) creates: path and its ancestors
MakedirsPrefixes(path) ==
    { [path EXCEPT !.rel = SubSeq(path.rel, 1, k)] :
        k \in {0} \cup { m \in 1..Len(path.rel) :
                            m = Len(path.rel) \/ path.rel[m + 1] = "/" } }

\* the mount itself
MountPath == [root |-> "mount", rid |-> "-", rel |-> <<>>]

\* the directory <mount>/<name>: the payload directory of the invocation
\* with that request id
TopDir(name) == [root |-> "payload", rid |-> name, rel |-> <<>>]

\* f"{download_path}/{input_key}" is handed to the operating system as it is;
\* a key that starts with ".." leaves download_path: <mount>/<id>/.. is the
\* mount, and the next component names a directory under the mount
ClimbsOut(path) == Len(path.rel) > 0 /\ path.rel[1] = ".."

Resolved(path) ==
    IF ~ClimbsOut(path) THEN path
    ELSE IF Len(path.rel) < 3 THEN MountPath
    ELSE [TopDir(path.rel[3]) EXCEPT !.rel = SubSeq(path.rel, 5, Len(path.rel))]

\* no path is found to exist
ExistsNever(path, existing) == FALSE

\* os.path.exists(path): the path is looked up through download_path
Exists(path, existing) ==
    /\ ClimbsOut(path) => [path EXCEPT !.rel = <<>>] \in existing
    /\ Resolved(path) \in existing

\* ------------------------------------------------------------------ messages
Msg(text, names, output) == [text |-> text, names |-> names, output |-> output]

NoMsg == Msg(None, {}, None)

\* makedirs skips a component ".." and creates what the others resolve to
MakedirsSet(path) == { Resolved(p) : p \in MakedirsPrefixes(path) } \ {MountPath}

\* ------------------------------------------------------------------ records
\* A tag set is the list TagSet of the S3 API: pairs of Key and Value.
Tag(k, v) == [Key |-> k, Value |-> v]

EmptyTags == <<>>

\* the key of the tag the function owns
ScanStatusKey == "scan-status"

\* the value of the first tag of the list, whatever its key
get_tag_valueFirstTag(tag_set, tag_key) ==
    IF Len(tag_set) > 0 THEN tag_set[1].Value ELSE None

\* get_tag_value, lines 229-236: the value of the first tag with this key
get_tag_value(tag_set, tag_key) ==
    IF \E k \in 1..Len(tag_set) : tag_set[k].Key = tag_key
    THEN tag_set[CHOOSE k \in 1..Len(tag_set) :
                    /\ tag_set[k].Key = tag_key
                    /\ \A m \in 1..(k - 1) : tag_set[m].Key # tag_key].Value
    ELSE None

\* A Python dict is kept as the list of its items in insertion order.
\* d[k] = v: the value of an existing key is replaced in place, a new key
\* goes to the end
DictSet(d, k, v) ==
    IF \E n \in 1..Len(d) : d[n].Key = k
    THEN [n \in 1..Len(d) |-> IF d[n].Key = k THEN Tag(k, v) ELSE d[n]]
    ELSE Append(d, Tag(k, v))

\* line 153: {i["Key"]: i["Value"] for i in response["TagSet"]}
RECURSIVE DictOf(_)
DictOf(tag_set) ==
    IF tag_set = <<>> THEN <<>>
    ELSE LET n == Len(tag_set)
         IN  DictSet(DictOf(SubSeq(tag_set, 1, n - 1)), tag_set[n].Key, tag_set[n].Value)

\* the keys of a tag set
TagKeys(tag_set) == { tag_set[k].Key : k \in 1..Len(tag_set) }

NoEvent == [key |-> <<>>, versionId |-> "absent", size |-> 0]

NoResult == [kind |-> "none", status |-> None, message |-> NoMsg,
             version_id |-> "absent", error |-> None]

\* what the download function raises or returns: download_defs report_failure,
\* lines 99-105
NoDefsResult == [kind |-> "none", source |-> None, message |-> None]

\* the download function is not running
NoUpd == [pc |-> "idle", todo |-> <<>>, left |-> {}, calls |-> <<>>,
          result |-> NoDefsResult, caller |-> None]

\* a reason handed to send: a string, or the exception object of line 40
Reason(kind, text) == [kind |-> kind, text |-> text]

\* the custom resource handler has no request
NoCr == [pc |-> "idle", type |-> None, status |-> None,
         reason |-> Reason(None, None), invokes |-> 0, invoked |-> None,
         puts |-> <<>>, result |-> "none"]

InitLoc == [input_key |-> <<>>, version_id |-> None, status |-> None,
            ss_status |-> None, ss_version |-> None, ss_old |-> EmptyTags,
            ss_ret |-> None,
            rf_path |-> NoPath, rf_msg |-> NoMsg, rf_version |-> None,
            current_time |-> 0, summary |-> NoResult]

\* a call that leaves the process: the operation, the VersionId it carries
\* (None when it carries none), the scan-status read or written, the path it
\* works on, the Tagging it sends and its outcome
Call(op, version, status, path, out) ==
    [op |-> op, version |-> version, status |-> status, path |-> path,
     tagset |-> <<>>, kwargs |-> {}, out |-> out]

\* lines 159-172: put_object_tagging(**tagging_args)
PutCall(version, tagset, out) ==
    [Call("put_object_tagging", version, get_tag_value(tagset, ScanStatusKey), NoPath, out)
        EXCEPT !.tagset = tagset]

\* the version an S3 call with VersionId = v (or without one) acts on
Resolve(v) == IF v = None THEN latest ELSE v

\* the object version the event of invocation i names
Target(i) == Resolve(loc[i].version_id)

\* ------------------------------------------------------------------ Init
InitScan ==
    /\ pc = [i \in Invs |-> "idle"]
    /\ event = [i \in Invs |-> NoEvent]
    /\ loc = [i \in Invs |-> InitLoc]
    /\ calls = [i \in Invs |-> <<>>]
    /\ result = [i \in Invs |-> NoResult]
    /\ \E first \in {EmptyTags, <<Tag(ScanStatusKey, SKIP)>>} :
          tags = [v \in Versions |-> IF v = "v1" THEN first
                                                ELSE <<Tag("owner", "team")>>]
    /\ latest \in Versions
    /\ dirs \in {{}, {definitions_path}}
    /\ files = {}
    /\ conf = FALSE
    /\ last_update_time = 0
    /\ now = EpochStart
    /\ tagAtEnd = [i \in Invs |-> None]
    /\ lastRefreshOk = 0

\* no invocation of the download function, an empty /tmp, no request; the
\* definitions bucket holds the given objects
DefsStart(objects) ==
    /\ upd = NoUpd
    /\ tmp_files = {}
    /\ defs_bucket = objects
    /\ cr = NoCr

Init == InitScan /\ DefsStart({})


\* ------------------------------------------------------------------ helpers
SetPc(i, label) == pc' = [pc EXCEPT ![i] = label]

Log(i, c) == calls' = [calls EXCEPT ![i] = Append(@, c)]

\* the invocation ends; the scan-status of its object at that moment is kept
End(i, res) ==
    /\ loc' = [loc EXCEPT ![i] = InitLoc]
    /\ result' = [result EXCEPT ![i] = res]
    /\ tagAtEnd' = [tagAtEnd EXCEPT ![i] = get_tag_value(tags'[Target(i)], ScanStatusKey)]
    /\ SetPc(i, "done")

\* an exception that nothing in lambda.py catches leaves the handler
Crash(i, error) == End(i, [NoResult EXCEPT !.kind = "crashed", !.error = error])

\* the summary is returned as it is
ReturnSummaryNoVersion(i, summary) == End(i, [summary EXCEPT !.kind = "returned"])

\* lines 132-137: the handler adds version_id to the summary and returns it
ReturnSummary(i, summary) ==
    End(i, [summary EXCEPT !.kind = "returned",
                           !.version_id = IF loc[i].version_id # None
                                          THEN loc[i].version_id
                                          ELSE summary.version_id])

Summary(status, text, output) ==
    [NoResult EXCEPT !.status = status, !.message = Msg(text, {}, output)]

\* lines 72-73: versionId of the event, None when absent or "null"
VersionIdOf(ev) ==
    IF ev.versionId = "absent" \/ ev.versionId = "null" THEN None ELSE ev.versionId

\* the test looks at the first character of the key instead of the last
IsNonFileKeyLeading(key) == Len(key) > 0 /\ key[1] = "/"

\* line 78
IsNonFileKey(key) == EndsWithSlash(key)

\* set_status is entered with IN PROGRESS whatever status the caller gives
CallSetStatusInProgress(l, status, version, ret) ==
    [l EXCEPT !.ss_status = IF status = None THEN None ELSE INPROGRESS,
              !.ss_version = version, !.ss_old = EmptyTags, !.ss_ret = ret]

\* set_status(bucket, key, status, version_id) is entered; it returns to ret
CallSetStatus(l, status, version, ret) ==
    [l EXCEPT !.ss_status = status, !.ss_version = version,
              !.ss_old = EmptyTags, !.ss_ret = ret]

\* the failure is recorded with the status of an object that is gone
CallReportFailureDeleted(l, path, msg, version) ==
    CallSetStatus([l EXCEPT !.rf_path = path, !.rf_msg = msg, !.rf_version = version],
                  DELETED, version, "rf_delete")

\* report_failure(bucket, key, download_path, message, version_id) is entered:
\* line 458 calls set_status(bucket, key, ERROR, version_id)
CallReportFailure(l, path, msg, version) ==
    CallSetStatus([l EXCEPT !.rf_path = path, !.rf_msg = msg, !.rf_version = version],
                  ERROR, version, "rf_delete")

\* delete(download_path) without input_key, lines 445-451: what is left
DeleteTree(set, path) == { p \in set : ~Under(p, path) }

DeleteFiles(set, path) == { f \in set : ~Under(f.path, path) }

\* ------------------------------------------------------------------ handler
\* the events the host can deliver
Events == [key : RawKeys, versionId : EventVersionIds, size : Sizes]

\* the events delivered while invocations overlap: the same object twice
ConcEvents == [key : {<<"f">>}, versionId : {"absent"}, size : {MAX_BYTES}]

\* invocation i is the next one the host dispatches
IsNext(i) ==
    \E k \in 1..Len(InvOrder) :
        /\ InvOrder[k] = i
        /\ \A m \in 1..(k - 1) : pc[InvOrder[m]] # "idle"

\* p is a path in the payload or temp directory of invocation j
Owned(p, j) == Under(p, payload_path(j)) \/ Under(p, tmp_path(j))

\* Before the host dispatches the next event, what is recorded about an
\* invocation that has ended is dropped, and what it left in its own
\* directories is no longer followed: no later invocation uses these paths.
Retire(j) ==
    /\ UNCHANGED defsVars
    /\ pc[j] = "done"
    /\ \E i \in Invs : pc[i] = "idle"
    /\ pc' = [pc EXCEPT ![j] = "gone"]
    /\ event' = [event EXCEPT ![j] = NoEvent]
    /\ calls' = [calls EXCEPT ![j] = <<>>]
    /\ result' = [result EXCEPT ![j] = NoResult]
    /\ tagAtEnd' = [tagAtEnd EXCEPT ![j] = None]
    /\ dirs' = { d \in dirs : ~Owned(d, j) }
    /\ files' = { f \in files : ~Owned(f.path, j) }
    /\ UNCHANGED << loc, tags, latest, conf, last_update_time, now, lastRefreshOk >>

\* lines 65-85: the event is read; a key ending in "/" is answered at once
Receive(i, events) ==
    /\ UNCHANGED defsVars
    /\ pc[i] = "idle"
    /\ IsNext(i)
    /\ \A j \in Invs : pc[j] # "done"
    /\ \E ev \in events :
        LET input_key == unquote_plus(ev.key)
            version_id == VersionIdOf(ev)
        IN
          /\ event' = [event EXCEPT ![i] = ev]
          /\ UNCHANGED << calls, tags, latest, dirs, files, conf,
                          last_update_time, now, lastRefreshOk >>
          /\ IF IsNonFileKey(input_key)
             THEN /\ result' = [result EXCEPT ![i] =
                        [Summary(SKIP, "S3 Event trigger was for a non-file object", None)
                            EXCEPT !.kind = "returned",
                                   !.version_id = IF version_id # None
                                                  THEN version_id ELSE "absent"]]
                  /\ tagAtEnd' = [tagAtEnd EXCEPT ![i] =
                                      get_tag_value(tags[Resolve(version_id)], ScanStatusKey)]
                  /\ SetPc(i, "done")
                  /\ UNCHANGED loc
             ELSE /\ loc' = [loc EXCEPT ![i].input_key = input_key,
                                        ![i].version_id = version_id]
                  /\ SetPc(i, "get_status")
                  /\ UNCHANGED << result, tagAtEnd >>

\* outcomes of get_object_tagging: a tag set, or a client error with this code
GetTaggingOutcomes == {"ok", "NoSuchKey", "404", "AccessDenied"}

\* outcomes of get_object_tagging inside set_status, of put_object_tagging and
\* of download_file, where the code of a client error is not looked at
S3Outcomes == {"ok", "ClientError"}

\* a not-found error is treated like any other client error
get_statusNotFoundAsNone(out, version) ==
    IF out = "ok" THEN get_tag_value(tags[Resolve(version)], ScanStatusKey) ELSE None

\* get_status, lines 176-206, with the call in get_tag_value, lines 223-228
get_status(out, version) ==
    IF out = "ok" THEN get_tag_value(tags[Resolve(version)], ScanStatusKey)
    ELSE IF out = "NoSuchKey" \/ out = "404" THEN DELETED
    ELSE None

\* lines 86-107: the status check and what the handler does with the status
GetStatus(i) ==
    /\ UNCHANGED defsVars
    /\ pc[i] = "get_status"
    /\ \E out \in GetTaggingOutcomes :
        LET status == get_status(out, loc[i].version_id)
            read == IF out = "ok"
                    THEN get_tag_value(tags[Resolve(loc[i].version_id)], ScanStatusKey)
                    ELSE None
        IN  /\ Log(i, Call("get_object_tagging", loc[i].version_id, read, NoPath, out))
            /\ UNCHANGED << event, tags, latest, dirs, files, conf,
                            last_update_time, now, lastRefreshOk >>
            /\ IF status = SKIP
               THEN ReturnSummary(i, Summary(status,
                          "S3 Event trigger was for a file already marked to skip", None))
               ELSE IF status = DELETED
               THEN ReturnSummary(i, Summary(status,
                          "S3 Event trigger was for a file that has been deleted", None))
               ELSE /\ loc' = [loc EXCEPT ![i] =
                          CallSetStatus([@ EXCEPT !.status = status],
                                        INPROGRESS, loc[i].version_id, "create_payload")]
                    /\ SetPc(i, "ss_get")
                    /\ UNCHANGED << result, tagAtEnd >>

\* ------------------------------------------------------------------ set_status
\* the tags of the object are used although the read failed
OldTagsStale(out, version) == DictOf(tags[Resolve(version)])

\* lines 145-155: old_tags is {} unless the read succeeds
OldTags(out, version) ==
    IF out = "ok" THEN DictOf(tags[Resolve(version)]) ELSE EmptyTags

\* lines 145-155: the existing tags are read; a client error leaves old_tags = {}
SetStatusGet(i) ==
    /\ UNCHANGED defsVars
    /\ pc[i] = "ss_get"
    /\ \E out \in S3Outcomes :
        LET old == OldTags(out, loc[i].ss_version)
        IN  /\ loc' = [loc EXCEPT ![i].ss_old = old]
            /\ Log(i, Call("get_object_tagging", loc[i].ss_version, None, NoPath, out))
    /\ SetPc(i, "ss_put")
    /\ UNCHANGED << event, result, tags, latest, dirs, files, conf,
                    last_update_time, now, tagAtEnd, lastRefreshOk >>

\* the dictionaries are merged the other way round: {**new_tags, **old_tags}
MergeTagsOldWins(old_tags, status) ==
    IF ScanStatusKey \in TagKeys(old_tags) THEN old_tags
    ELSE DictSet(old_tags, ScanStatusKey, status)

\* the new tag is added to the list without looking for its key
MergeTagsAppend(old_tags, status) == Append(old_tags, Tag(ScanStatusKey, status))

\* only the new tag is written
MergeTagsNewOnly(old_tags, status) == <<Tag(ScanStatusKey, status)>>

\* lines 156-157: tags = {**old_tags, **new_tags} with new_tags = {"scan-status": status}
MergeTags(old_tags, status) == DictSet(old_tags, ScanStatusKey, status)

\* lines 159-173: the merged tag set replaces the tag set of the object; a
\* client error of put_object_tagging is not caught
SetStatusPut(i) ==
    /\ UNCHANGED defsVars
    /\ pc[i] = "ss_put"
    /\ \E out \in S3Outcomes :
        /\ Log(i, PutCall(loc[i].ss_version, MergeTags(loc[i].ss_old, loc[i].ss_status), out))
        /\ IF out = "ok"
           THEN /\ tags' = [tags EXCEPT ![Resolve(loc[i].ss_version)] =
                                MergeTags(loc[i].ss_old, loc[i].ss_status)]
                /\ SetPc(i, loc[i].ss_ret)
                /\ loc' = [loc EXCEPT ![i] = CallSetStatus(@, None, None, None)]
                /\ UNCHANGED << result, tagAtEnd >>
           ELSE /\ UNCHANGED tags
                /\ Crash(i, "ClientError")
    /\ UNCHANGED << event, latest, dirs, files, conf,
                    last_update_time, now, lastRefreshOk >>

\* ------------------------------------------------------------------ create_dir
\* lines 242-245: the directory create_dir works on
FullPath(key, download_path) ==
    IF Len(Dirname(key)) > 0 THEN Join(download_path, Dirname(key)) ELSE download_path

\* create_dir(input_bucket, input_key, download_path), lines 239-253; next is
\* the position of the handler after the call
create_dir(i, download_path, next) ==
    LET full_path == FullPath(loc[i].input_key, download_path) IN
    /\ UNCHANGED defsVars
    /\ IF Exists(full_path, dirs)
       THEN /\ SetPc(i, next)
            /\ UNCHANGED << loc, calls, dirs >>
       ELSE \E out \in {"ok", "OSError"} :
            /\ Log(i, Call("makedirs", None, None, Resolved(full_path), out))
            /\ IF out = "ok"
               THEN /\ dirs' = dirs \cup MakedirsSet(full_path)
                    /\ SetPc(i, next)
                    /\ UNCHANGED loc
               ELSE /\ loc' = [loc EXCEPT ![i] =
                          CallReportFailure(@, download_path, Msg("OSError", {}, None), None)]
                    /\ SetPc(i, "ss_get")
                    /\ UNCHANGED dirs
    /\ UNCHANGED << event, result, tags, latest, files, conf,
                    last_update_time, now, tagAtEnd, lastRefreshOk >>

\* line 108
CreatePayloadDir(i) == pc[i] = "create_payload" /\ create_dir(i, payload_path(i), "create_tmp")

\* line 109
CreateTmpDir(i) == pc[i] = "create_tmp" /\ create_dir(i, tmp_path(i), "download")

\* after the definitions directory the handler fetches the object again
CreateDefsDirRetry(i) == pc[i] = "create_defs" /\ create_dir(i, definitions_path, "download")

\* line 117
CreateDefsDir(i) == pc[i] = "create_defs" /\ create_dir(i, definitions_path, "freshclam")

\* ------------------------------------------------------------------ download_object
\* sizes the fetched object can have: the declared one, or that of an object
\* that replaced it after the event was emitted
FetchedSizes(ev) == {ev.size, MAX_BYTES + 1}

\* lines 262-269: the keywords of download_args
DownloadArgs(version_id) ==
    {"Bucket", "Key", "Filename"} \cup (IF version_id # None THEN {"VersionId"} ELSE {})

\* s3_client.download_file(**download_args), line 271
DownloadCall(version_id, file, out) ==
    [Call("download_file", version_id, None, file, out)
        EXCEPT !.kwargs = DownloadArgs(version_id)]

\* the directory a file lies in
Parent(file) ==
    [file EXCEPT !.rel = IF LastSlash(@) = 0 THEN <<>> ELSE SubSeq(@, 1, LastSlash(@) - 1)]

\* outcomes of s3_client.download_file(**download_args); with a version
\* identifier the call carries the keyword VersionId (lines 268-269), which
\* the client may reject before any request is made; a file cannot be
\* written into a directory that is not there
DownloadOutcomes(version_id, file) ==
    IF Parent(file) \notin dirs THEN {"FileNotFoundError"}
    ELSE S3Outcomes \cup (IF version_id # None THEN {"TypeError"} ELSE {})

\* download_object, lines 256-279
DownloadObject(i) ==
    /\ UNCHANGED defsVars
    /\ pc[i] = "download"
    /\ UNCHANGED << event, tags, latest, dirs, conf,
                    last_update_time, now, lastRefreshOk >>
    /\ LET file == Resolved(Join(payload_path(i), loc[i].input_key)) IN
       \E out \in DownloadOutcomes(loc[i].version_id, file) :
        /\ Log(i, DownloadCall(loc[i].version_id, file, out))
        /\ IF out = "ok"
           THEN /\ \E sz \in FetchedSizes(event[i]) :
                      files' = { f \in files : f.path # file } \cup {[path |-> file, size |-> sz]}
                /\ SetPc(i, "expand")
                /\ UNCHANGED << loc, result, tagAtEnd >>
           ELSE IF out = "ClientError"
           THEN /\ loc' = [loc EXCEPT ![i] =
                      CallReportFailure(@, payload_path(i),
                          Msg("ClientError message", {}, None), loc[i].version_id)]
                /\ SetPc(i, "ss_get")
                /\ UNCHANGED << files, result, tagAtEnd >>
           ELSE /\ UNCHANGED files
                /\ Crash(i, out)

\* ------------------------------------------------------------------ expand_if_large_archive
\* line 284
IsLargeArchiveAtLeast(byte_size) == byte_size >= MAX_BYTES

\* line 285
IsLargeArchive(byte_size) == byte_size > MAX_BYTES

\* line 297
ArchiveOk(returncode) == returncode \in {0, 1}

\* lines 302-307: names of the files under download_path larger than MAX_BYTES
LargeFileList(fs, download_path) ==
    { f.path.rel[Len(f.path.rel)] : f \in { g \in fs : Under(g.path, download_path) /\ g.size > MAX_BYTES } }

\* the files of the payload directory after 7za x -y <file> -o<download_path>
Extracted(fs, download_path, members) ==
    LET new == { [path |-> Join(download_path, <<members[k].name>>), size |-> members[k].size] :
                    k \in 1..Len(members) }
    IN  { f \in fs : \A n \in new : n.path # f.path } \cup new

\* expand_if_large_archive, lines 282-322
ExpandIfLargeArchive(i) ==
    /\ UNCHANGED defsVars
    /\ pc[i] = "expand"
    /\ IF IsLargeArchive(event[i].size)
       THEN \E rc \in ExitCodes, members \in Extractions :
            LET file_name == Resolved(Join(payload_path(i), loc[i].input_key))
                unpacked == Extracted(files, payload_path(i), members)
                \* line 301: delete(download_path, input_key)
                removed == { f \in unpacked : f.path # file_name }
                large_file_list == LargeFileList(removed, payload_path(i))
            IN  IF ~ArchiveOk(rc)
                THEN /\ Log(i, Call("7za", None, None, file_name, "exit other"))
                     /\ files' = unpacked
                     /\ loc' = [loc EXCEPT ![i] =
                           CallReportFailure(@, payload_path(i),
                               Msg("7za exited with unexpected code", {}, None), None)]
                     /\ SetPc(i, "ss_get")
                ELSE /\ calls' = [calls EXCEPT ![i] =
                           @ \o << Call("7za", None, None, file_name, "exit 0/1"),
                                   Call("remove", None, None, file_name, "ok"),
                                   Call("walk", None, None, payload_path(i),
                                        IF large_file_list # {} THEN "large files" ELSE "ok") >>]
                     /\ files' = removed
                     /\ IF large_file_list # {}
                        THEN /\ loc' = [loc EXCEPT ![i] =
                                   CallReportFailure(@, payload_path(i),
                                       Msg("Archive contains files which are greater than ClamAV max",
                                           large_file_list, None), None)]
                             /\ SetPc(i, "ss_get")
                        ELSE /\ SetPc(i, "create_defs")
                             /\ UNCHANGED loc
       ELSE /\ SetPc(i, "create_defs")
            /\ UNCHANGED << loc, calls, files >>
    /\ UNCHANGED << event, result, tags, latest, dirs, conf,
                    last_update_time, now, tagAtEnd, lastRefreshOk >>

\* ------------------------------------------------------------------ freshclam_update
\* the comparison is strict
NeedsUpdateStrict(current_time, last) == current_time - last > REFRESH_INTERVAL

\* lines 333-336: definitions are updated when an hour has passed
NeedsUpdate(current_time, last) == current_time - last >= REFRESH_INTERVAL

\* lines 331-345: the clock is read and the throttle decides
FreshclamDecide(i) ==
    /\ UNCHANGED defsVars
    /\ pc[i] = "freshclam"
    /\ loc' = [loc EXCEPT ![i].current_time = now]
    /\ IF NeedsUpdate(now, last_update_time)
       THEN /\ conf' = TRUE
            /\ SetPc(i, "freshclam_run")
       ELSE /\ SetPc(i, "scan")
            /\ UNCHANGED conf
    /\ UNCHANGED << event, calls, result, tags, latest, dirs, files,
                    last_update_time, now, tagAtEnd, lastRefreshOk >>

\* every exit code of freshclam counts as a successful update
FreshclamOkAny(returncode) == returncode \in FreshclamExitCodes

\* line 360
FreshclamOk(returncode) == returncode = 0

\* lines 346-371: freshclam runs; only exit code 0 advances last_update_time
FreshclamRun(i) ==
    /\ UNCHANGED defsVars
    /\ pc[i] = "freshclam_run"
    /\ \E rc \in FreshclamExitCodes :
        /\ Log(i, Call("freshclam", None, None, definitions_path,
                       IF rc = 0 THEN "exit 0" ELSE "exit other"))
        /\ IF FreshclamOk(rc)
           THEN /\ last_update_time' = loc[i].current_time
                /\ lastRefreshOk' = IF rc = 0 THEN loc[i].current_time ELSE lastRefreshOk
                /\ SetPc(i, "scan")
                /\ UNCHANGED loc
           ELSE /\ loc' = [loc EXCEPT ![i] =
                      CallReportFailure(@, payload_path(i),
                          Msg("FreshClam exited with unexpected code", {}, "freshclam stdout"),
                          None)]
                /\ SetPc(i, "ss_get")
                /\ UNCHANGED << last_update_time, lastRefreshOk >>
    /\ UNCHANGED << event, result, tags, latest, dirs, files, conf,
                    now, tagAtEnd >>

\* ------------------------------------------------------------------ scan
\* every exit code other than 0 counts as a detection
VerdictNonZeroInfected(returncode) == IF returncode = 0 THEN CLEAN ELSE INFECTED

\* lines 403-411: the verdict of an exit code, None for an unexpected one
Verdict(returncode) ==
    IF returncode = 0 THEN CLEAN
    ELSE IF returncode = 1 THEN INFECTED
    ELSE None

\* scan, lines 374-432, up to the call of set_status or report_failure
Scan(i) ==
    /\ UNCHANGED defsVars
    /\ pc[i] = "scan"
    /\ \E rc \in ExitCodes :
        /\ Log(i, Call("clamscan", None, None, payload_path(i),
                       IF rc = 0 THEN "exit 0" ELSE IF rc = 1 THEN "exit 1" ELSE "exit other"))
        /\ IF Verdict(rc) # None
           THEN loc' = [loc EXCEPT ![i] =
                    CallSetStatus([@ EXCEPT !.summary =
                                       [Summary(Verdict(rc), "clamscan stdout", "clamscan stdout")
                                           EXCEPT !.version_id = IF loc[i].version_id # None
                                                                 THEN loc[i].version_id
                                                                 ELSE "absent"]],
                                  Verdict(rc), loc[i].version_id, "scan_return")]
           ELSE loc' = [loc EXCEPT ![i] =
                    CallReportFailure(@, payload_path(i),
                        Msg("ClamAV exited with unexpected code", {}, "clamscan stdout"),
                        loc[i].version_id)]
    /\ SetPc(i, "ss_get")
    /\ UNCHANGED << event, result, tags, latest, dirs, files, conf,
                    last_update_time, now, tagAtEnd, lastRefreshOk >>

\* ------------------------------------------------------------------ delete
\* lines 129-137: the summary came back from scan; both directories are
\* deleted and the summary is returned.  shutil.rmtree of a directory that
\* does not exist raises FileNotFoundError.
Cleanup(i) ==
    /\ UNCHANGED defsVars
    /\ pc[i] = "scan_return"
    /\ UNCHANGED << event, tags, latest, conf,
                    last_update_time, now, lastRefreshOk >>
    /\ IF payload_path(i) \notin dirs
       THEN /\ Log(i, Call("rmtree", None, None, payload_path(i), "FileNotFoundError"))
            /\ UNCHANGED << dirs, files >>
            /\ Crash(i, "FileNotFoundError")
       ELSE IF tmp_path(i) \notin dirs
       THEN /\ calls' = [calls EXCEPT ![i] =
                  @ \o << Call("rmtree", None, None, payload_path(i), "ok"),
                          Call("rmtree", None, None, tmp_path(i), "FileNotFoundError") >>]
            /\ dirs' = DeleteTree(dirs, payload_path(i))
            /\ files' = DeleteFiles(files, payload_path(i))
            /\ Crash(i, "FileNotFoundError")
       ELSE /\ calls' = [calls EXCEPT ![i] =
                  @ \o << Call("rmtree", None, None, payload_path(i), "ok"),
                          Call("rmtree", None, None, tmp_path(i), "ok") >>]
            /\ dirs' = DeleteTree(DeleteTree(dirs, payload_path(i)), tmp_path(i))
            /\ files' = DeleteFiles(DeleteFiles(files, payload_path(i)), tmp_path(i))
            /\ ReturnSummary(i, loc[i].summary)

\* ------------------------------------------------------------------ report_failure
\* lines 459-470: set_status(ERROR) has returned; the given path is deleted
\* and the failure record is raised
ReportFailureDelete(i) ==
    /\ UNCHANGED defsVars
    /\ pc[i] = "rf_delete"
    /\ UNCHANGED << event, tags, latest, conf,
                    last_update_time, now, lastRefreshOk >>
    /\ IF loc[i].rf_path \notin dirs
       THEN /\ Log(i, Call("rmtree", None, None, loc[i].rf_path, "FileNotFoundError"))
            /\ UNCHANGED << dirs, files >>
            /\ Crash(i, "FileNotFoundError")
       ELSE /\ Log(i, Call("rmtree", None, None, loc[i].rf_path, "ok"))
            /\ dirs' = DeleteTree(dirs, loc[i].rf_path)
            /\ files' = DeleteFiles(files, loc[i].rf_path)
            /\ End(i, [NoResult EXCEPT !.kind = "raised", !.status = ERROR,
                                       !.message = loc[i].rf_msg,
                                       !.version_id = IF loc[i].rf_version # None
                                                      THEN loc[i].rf_version ELSE "absent"])

\* ------------------------------------------------------------------ environment
\* the clock advances; time.time() is read at line 332 only, so it is enough
\* that the clock moves when an invocation is about to read it
Tick ==
    /\ UNCHANGED defsVars
    /\ \E i \in Invs : pc[i] = "freshclam"
    /\ \E d \in ClockSteps :
        /\ now + d <= EpochStart + MaxElapsed
        /\ now' = now + d
    /\ UNCHANGED << pc, event, loc, calls, result, tags, latest, dirs, files,
                    conf, last_update_time, tagAtEnd, lastRefreshOk >>

\* ------------------------------------------------------------------ specification
Step(i) ==
    \/ GetStatus(i)
    \/ SetStatusGet(i)
    \/ SetStatusPut(i)
    \/ CreatePayloadDir(i)
    \/ CreateTmpDir(i)
    \/ DownloadObject(i)
    \/ ExpandIfLargeArchive(i)
    \/ CreateDefsDir(i)
    \/ FreshclamDecide(i)
    \/ FreshclamRun(i)
    \/ Scan(i)
    \/ Cleanup(i)
    \/ ReportFailureDelete(i)

\* positions whose step touches nothing but the invocation's own directories
\* and files; such a step commutes with every step of another invocation
LocalPcs == {"create_payload", "create_tmp", "download", "expand", "scan_return"}

\* no invocation other than i is about to take a step of its own
NoLocalStepPending(i) == \A j \in Invs \ {i} : pc[j] \notin LocalPcs

\* no invocation is running
NoneRunning == \A j \in Invs : pc[j] \in {"idle", "done", "gone"}

\* the host dispatches an event when the previous invocation has ended
ReceiveSeq(i) == NoneRunning /\ Receive(i, Events)

\* the host dispatches an event while another invocation may be running
ReceiveConc(i) == NoLocalStepPending(i) /\ Receive(i, ConcEvents)

\* invocations run one after the other
Next ==
    \/ \E i \in Invs : ReceiveSeq(i) \/ Step(i) \/ Retire(i)
    \/ Tick

Spec == Init /\ [][Next]_vars

\* outcomes of a call that are not a failure of the environment
GoodOutcomes == {"ok", "exit 0", "exit 1", "exit 0/1"}

\* number of failed calls among the calls recorded
FaultCount ==
    LET bad(i) == Cardinality({ k \in 1..Len(calls[i]) : calls[i][k].out \notin GoodOutcomes })
        Sum[S \in SUBSET Invs] ==
            IF S = {} THEN 0
            ELSE LET j == CHOOSE x \in S : TRUE IN bad(j) + Sum[S \ {j}]
    IN  Sum[Invs]

\* the steps of an invocation that overlaps with others: steps that commute
\* are taken first, and the failures of the environment are bounded
MayStep(i) == NoLocalStepPending(i)

WithinFaults == FaultCount <= MaxFaults

ConcGetStatus(i) == MayStep(i) /\ GetStatus(i) /\ WithinFaults'

ConcSetStatusGet(i) == MayStep(i) /\ SetStatusGet(i) /\ WithinFaults'

ConcSetStatusPut(i) == MayStep(i) /\ SetStatusPut(i) /\ WithinFaults'

ConcCreatePayloadDir(i) == MayStep(i) /\ CreatePayloadDir(i) /\ WithinFaults'

ConcCreateTmpDir(i) == MayStep(i) /\ CreateTmpDir(i) /\ WithinFaults'

ConcDownloadObject(i) == MayStep(i) /\ DownloadObject(i) /\ WithinFaults'

ConcExpandIfLargeArchive(i) == MayStep(i) /\ ExpandIfLargeArchive(i) /\ WithinFaults'

ConcCreateDefsDir(i) == MayStep(i) /\ CreateDefsDir(i) /\ WithinFaults'

ConcFreshclamDecide(i) == MayStep(i) /\ FreshclamDecide(i) /\ WithinFaults'

ConcFreshclamRun(i) == MayStep(i) /\ FreshclamRun(i) /\ WithinFaults'

ConcScan(i) == MayStep(i) /\ Scan(i) /\ WithinFaults'

ConcCleanup(i) == MayStep(i) /\ Cleanup(i) /\ WithinFaults'

ConcReportFailureDelete(i) == MayStep(i) /\ ReportFailureDelete(i) /\ WithinFaults'

\* invocations overlap
NextConc ==
    \/ \E i \in Invs :
          \/ ReceiveConc(i)
          \/ Retire(i)
          \/ ConcGetStatus(i)
          \/ ConcSetStatusGet(i)
          \/ ConcSetStatusPut(i)
          \/ ConcCreatePayloadDir(i)
          \/ ConcCreateTmpDir(i)
          \/ ConcDownloadObject(i)
          \/ ConcExpandIfLargeArchive(i)
          \/ ConcCreateDefsDir(i)
          \/ ConcFreshclamDecide(i)
          \/ ConcFreshclamRun(i)
          \/ ConcScan(i)
          \/ ConcCleanup(i)
          \/ ConcReportFailureDelete(i)
    \/ Tick

\* overlapping invocations start in a fresh execution context on an empty
\* mount; the events name the current version of the object
InitConc == Init /\ latest = "v1" /\ dirs = {}

SpecConc == InitConc /\ [][NextConc]_vars

\* a key that climbs out of the payload directory of the invocation that
\* fetches it, into the directory named after the second request id
HostileKey == <<"..", "/", InvOrder[2], "/", "f">>

\* the events of overlapping invocations when keys are not trusted: the first
\* event names the hostile key
OpenEvents(i) ==
    IF i = InvOrder[1]
    THEN [key : {HostileKey}, versionId : {"absent"}, size : {MAX_BYTES}]
    ELSE ConcEvents

ReceiveOpen(i) == NoLocalStepPending(i) /\ Receive(i, OpenEvents(i))

\* another client of the bucket adds a tag to the object; it is enough that
\* it does so while the first set_status of an invocation is between its read
\* (lines 148-153) and its write (line 172)
ExternalPutTagging ==
    /\ UNCHANGED defsVars
    /\ \E i \in Invs : pc[i] = "ss_put" /\ loc[i].ss_status = INPROGRESS
    /\ "reviewed" \notin TagKeys(tags[latest])
    /\ tags' = [tags EXCEPT ![latest] = DictSet(@, "reviewed", "yes")]
    /\ UNCHANGED << pc, event, loc, calls, result, latest, dirs, files,
                    conf, last_update_time, now, tagAtEnd, lastRefreshOk >>

\* invocations overlap, keys are not trusted and the object has other writers
NextOpen ==
    \/ \E i \in Invs :
          \/ ReceiveOpen(i)
          \/ Retire(i)
          \/ ConcGetStatus(i)
          \/ ConcSetStatusGet(i)
          \/ ConcSetStatusPut(i)
          \/ ConcCreatePayloadDir(i)
          \/ ConcCreateTmpDir(i)
          \/ ConcDownloadObject(i)
          \/ ConcExpandIfLargeArchive(i)
          \/ ConcCreateDefsDir(i)
          \/ ConcFreshclamDecide(i)
          \/ ConcFreshclamRun(i)
          \/ ConcScan(i)
          \/ ConcCleanup(i)
          \/ ConcReportFailureDelete(i)
    \/ Tick
    \/ ExternalPutTagging

SpecOpen == InitConc /\ [][NextOpen]_vars

\* invocations run one after the other; the host keeps dispatching and an
\* invocation that is not interrupted takes its next step
SpecLive == Init /\ [][Next]_vars /\ WF_vars(Next)

\* ------------------------------------------------------------------ download_defs/lambda.py
\* line 45: the files download_s3_defs asks for, in this order
DefsFiles == <<"bytecode.cvd", "daily.cvd", "main.cvd", "freshclam.conf">>

\* line 67
ConfFile == "freshclam.conf"

\* what a freshclam run that exits with 0 can leave in its data directory
FreshclamWrites ==
    { {"daily.cvd"},
      {"bytecode.cvd", "daily.cvd", "main.cvd"},
      {"bytecode.cvd", "daily.cvd", "main.cvd", "freshclam.dat"} }

\* what the definitions bucket can hold when the stack is deployed
InitialObjects == { {}, {"bytecode.cvd", "daily.cvd", "main.cvd", "freshclam.conf"} }

\* a call of the download function: operation, file, outcome
DefsCall(op, file, out) == [op |-> op, file |-> file, out |-> out]

DefsLog(c) == [upd EXCEPT !.calls = Append(@, c)]

\* download_defs report_failure, lines 99-105: the record that is raised
DefsFailure(message) ==
    [kind |-> "raised", source |-> "serverless-clamscan-update", message |-> message]

\* lines 31-36: the handler is entered, by the schedule or by the custom resource
EnterDefs(caller) ==
    [NoUpd EXCEPT !.pc = "download", !.todo = DefsFiles, !.caller = caller]

\* the scheduled rule invokes the download function
ScheduledInvoke ==
    /\ upd.pc = "idle"
    /\ upd' = EnterDefs("schedule")
    /\ UNCHANGED << tmp_files, defs_bucket, cr >>
    /\ UNCHANGED scanVars

\* download_s3_defs, lines 41-49: one file per step; the first ClientError
\* ends the loop and is swallowed
download_s3_defs ==
    /\ upd.pc = "download"
    /\ UNCHANGED << defs_bucket, cr >>
    /\ UNCHANGED scanVars
    /\ IF upd.todo = <<>>
       THEN /\ upd' = [upd EXCEPT !.pc = "freshclam"]
            /\ UNCHANGED tmp_files
       ELSE LET filename == Head(upd.todo) IN
            \E out \in (IF filename \in defs_bucket THEN {"ok", "ClientError"}
                                                    ELSE {"ClientError"}) :
              IF out = "ok"
              THEN /\ upd' = [DefsLog(DefsCall("download_file", filename, out))
                                 EXCEPT !.todo = Tail(@)]
                   /\ tmp_files' = tmp_files \cup {filename}
              ELSE /\ upd' = [DefsLog(DefsCall("download_file", filename, out))
                                 EXCEPT !.todo = <<>>, !.pc = "freshclam"]
                   /\ UNCHANGED tmp_files

\* every exit code of freshclam lets the handler go on
DefsFreshclamOkAny(returncode) == returncode \in FreshclamExitCodes

\* line 88
DefsFreshclamOk(returncode) == returncode = 0

\* download_defs freshclam_update, lines 64-96: the configuration file is
\* written when it is missing, then freshclam runs
defs_freshclam_update ==
    /\ upd.pc = "freshclam"
    /\ UNCHANGED << defs_bucket, cr >>
    /\ UNCHANGED scanVars
    /\ \E rc \in FreshclamExitCodes :
        LET logged == DefsLog(DefsCall("freshclam", "/tmp",
                                       IF rc = 0 THEN "exit 0" ELSE "exit other"))
        IN  IF DefsFreshclamOk(rc)
            THEN \E written \in FreshclamWrites :
                  /\ tmp_files' = tmp_files \cup {ConfFile} \cup written
                  \* line 38: upload_s3_defs is entered, line 55 lists the files
                  /\ upd' = [logged EXCEPT !.pc = "upload", !.left = tmp_files']
            ELSE /\ tmp_files' = tmp_files \cup {ConfFile}
                 /\ upd' = [logged EXCEPT !.pc = "done",
                               !.result = DefsFailure("FreshClam exited with unexpected code")]

\* upload_s3_defs, lines 52-61: one file per step, in the order os.walk gives;
\* a ClientError is reported with report_failure
upload_s3_defs ==
    /\ upd.pc = "upload"
    /\ UNCHANGED << tmp_files, cr >>
    /\ UNCHANGED scanVars
    /\ IF upd.left = {}
       THEN /\ upd' = [upd EXCEPT !.pc = "done", !.result.kind = "returned"]
            /\ UNCHANGED defs_bucket
       ELSE \E file \in upd.left, out \in S3Outcomes :
              IF out = "ok"
              THEN /\ upd' = [DefsLog(DefsCall("upload_file", file, out))
                                 EXCEPT !.left = @ \ {file}]
                   /\ defs_bucket' = defs_bucket \cup {file}
              ELSE /\ upd' = [DefsLog(DefsCall("upload_file", file, out))
                                 EXCEPT !.pc = "done", !.left = {},
                                        !.result = DefsFailure("ClientError message")]
                   /\ UNCHANGED defs_bucket

\* the scheduled invocation has ended; /tmp stays for the next one
DefsReturn ==
    /\ upd.pc = "done"
    /\ upd.caller = "schedule"
    /\ upd' = NoUpd
    /\ UNCHANGED << tmp_files, defs_bucket, cr >>
    /\ UNCHANGED scanVars

\* ------------------------------------------------------------------ initialize_defs_cr/lambda.py
\* RequestType of a custom resource request
RequestTypes == {"Create", "Update", "Delete"}

\* lines 31, 35, 42: the reasons the handler builds are strings
StrReason(text) == Reason("str", text)

\* line 40: reason=e, the ClientError object itself
ExceptionReason(e) == Reason("exception", e)

\* lines 22-25, 41-44: a request arrives
CrReceive ==
    /\ cr.pc = "idle"
    /\ UNCHANGED << upd, tmp_files, defs_bucket >>
    /\ UNCHANGED scanVars
    /\ \E event_type \in RequestTypes :
        IF event_type = "Create"
        THEN cr' = [NoCr EXCEPT !.pc = "invoke", !.type = event_type]
        ELSE cr' = [NoCr EXCEPT !.pc = "send", !.type = event_type,
                                !.status = "SUCCESS",
                                !.reason = StrReason("Nothing to do")]

\* lines 26-28, 38-40: lambda_client.invoke starts the download function or
\* raises a ClientError
CrInvoke ==
    /\ cr.pc = "invoke"
    /\ UNCHANGED << tmp_files, defs_bucket >>
    /\ UNCHANGED scanVars
    /\ \/ /\ upd.pc = "idle"
          /\ upd' = EnterDefs("cr")
          /\ cr' = [cr EXCEPT !.pc = "wait", !.invokes = @ + 1, !.invoked = "started"]
       \/ /\ cr' = [cr EXCEPT !.pc = "send", !.invokes = @ + 1,
                              !.invoked = "ClientError", !.status = "FAILED",
                              !.reason = ExceptionReason("ClientError")]
          /\ UNCHANGED upd

\* the result of invoke has FunctionError when the function raised
FunctionError(res) == IF res.kind = "raised" THEN "Unhandled" ELSE None

\* lines 29-37: the invocation has come back
CrResult ==
    /\ cr.pc = "wait"
    /\ upd.pc = "done"
    /\ upd.caller = "cr"
    /\ UNCHANGED << tmp_files, defs_bucket >>
    /\ UNCHANGED scanVars
    /\ upd' = NoUpd
    /\ LET error == FunctionError(upd.result) IN
       IF error = None
       THEN cr' = [cr EXCEPT !.pc = "send", !.status = "SUCCESS", !.invoked = "ok",
                       !.reason = StrReason("Initial definition download succeeded")]
       ELSE cr' = [cr EXCEPT !.pc = "send", !.status = "FAILED", !.invoked = error,
                       !.reason = StrReason("Initial definition download failed")]

\* json.dumps of line 70 takes strings, numbers, booleans and containers
Serializable(reason) == reason.kind = "str"

\* send, lines 47-83: the body is serialised, then PUT to the response URL;
\* a failure of the request is logged and nothing else
send ==
    /\ cr.pc = "send"
    /\ UNCHANGED << upd, tmp_files, defs_bucket >>
    /\ UNCHANGED scanVars
    /\ IF ~Serializable(cr.reason)
       THEN cr' = [cr EXCEPT !.pc = "done", !.result = "TypeError"]
       ELSE \E out \in {"ok", "error"} :
              cr' = [cr EXCEPT !.pc = "done", !.result = "returned",
                               !.puts = Append(@, [Status |-> cr.status,
                                                   Reason |-> cr.reason.text,
                                                   out |-> out])]

\* the request is over
CrForget ==
    /\ cr.pc = "done"
    /\ cr' = NoCr
    /\ UNCHANGED << upd, tmp_files, defs_bucket >>
    /\ UNCHANGED scanVars

\* the download function and the custom resource, with the scan function idle
NextDefs ==
    \/ ScheduledInvoke
    \/ download_s3_defs
    \/ defs_freshclam_update
    \/ upload_s3_defs
    \/ DefsReturn
    \/ CrReceive
    \/ CrInvoke
    \/ CrResult
    \/ send
    \/ CrForget

InitDefs ==
    /\ InitScan
    /\ tags["v1"] = EmptyTags
    /\ latest = "v1"
    /\ dirs = {}
    /\ \E objects \in InitialObjects : DefsStart(objects)

SpecDefs == InitDefs /\ [][NextDefs]_vars

\* ------------------------------------------------------------------ observations
\* the invocation has ended and what it did is still recorded
Ended(i) == pc[i] = "done"

\* version_id as the handler computes it from the event
EventVersion(i) == VersionIdOf(event[i])

\* the status check of invocation i has been made and did not short-circuit:
\* the first call is the tag read, and it neither returned the SKIP sentinel
\* nor reported the object as not found
EnteredScanPath(i) ==
    /\ Len(calls[i]) >= 1
    /\ calls[i][1].op = "get_object_tagging"
    /\ ~(calls[i][1].out = "ok" /\ calls[i][1].status = SKIP)
    /\ calls[i][1].out \notin {"NoSuchKey", "404"}

\* a stage of the scan path has failed fatally
StageFailed(i) ==
    \E k \in 1..Len(calls[i]) :
        \/ calls[i][k].op = "makedirs" /\ calls[i][k].out = "OSError"
        \/ calls[i][k].op = "download_file" /\ calls[i][k].out # "ok"
        \/ calls[i][k].op = "7za" /\ calls[i][k].out = "exit other"
        \/ calls[i][k].op = "walk" /\ calls[i][k].out = "large files"
        \/ calls[i][k].op = "freshclam" /\ calls[i][k].out = "exit other"
        \/ calls[i][k].op = "clamscan" /\ calls[i][k].out = "exit other"

\* the calls of invocation i with this operation
CallsOf(i, op) == { k \in 1..Len(calls[i]) : calls[i][k].op = op }

\* ------------------------------------------------------------------ claims
\* C1: an invocation that entered the scan path and returned a record leaves
\* the scan-status tag of its object at CLEAN or INFECTED when it returns.
C1_TerminalStatus ==
    \A i \in Invs :
        (Ended(i) /\ result[i].kind = "returned" /\ EnteredScanPath(i))
            => tagAtEnd[i] \in {CLEAN, INFECTED}

C1_Witness ==
    \E i \in Invs :
        /\ Ended(i) /\ result[i].kind = "returned" /\ EnteredScanPath(i)
        /\ tagAtEnd[i] = INFECTED

\* C2: after an invocation that entered the scan path has ended, with a verdict
\* or with a failure, neither its payload directory nor its temp directory exists.
C2_CleanupGuarantee ==
    \A i \in Invs :
        (Ended(i) /\ EnteredScanPath(i))
            => \A d \in dirs : ~Under(d, payload_path(i)) /\ ~Under(d, tmp_path(i))

\* C3: when a stage of the scan path failed fatally, the invocation ends with
\* the scan-status tag of the object named by the event equal to ERROR.
C3_FailureTagsError ==
    \A i \in Invs : (Ended(i) /\ StageFailed(i)) => tagAtEnd[i] = ERROR

\* C4: when the event carries a version identifier, every tag read, tag write
\* and fetch of the invocation carries that version identifier.
C4_VersionOnEveryCall ==
    \A i \in Invs :
        EventVersion(i) # None =>
            \A k \in 1..Len(calls[i]) :
                calls[i][k].op \in {"get_object_tagging", "put_object_tagging", "download_file"}
                    => calls[i][k].version = EventVersion(i)

\* C5: an invocation that does not return a record ends by raising the
\* structured failure record with status ERROR, and in no other way.
C5_StructuredFailure ==
    \A i \in Invs :
        (Ended(i) /\ result[i].kind # "returned")
            => result[i].kind = "raised" /\ result[i].status = ERROR

\* C6: an event whose url-decoded key ends in "/" is answered with status SKIP
\* and the non-file message in the step that receives it, without any call and
\* without a change to the tags, the definition timestamp or the file system.
C6_NonFileShortCircuit ==
    [][ \A i \in Invs :
          (pc[i] = "idle" /\ pc'[i] # "idle" /\ EndsWithSlash(unquote_plus(event'[i].key)))
            => /\ pc'[i] = "done"
               /\ result'[i].kind = "returned"
               /\ result'[i].status = SKIP
               /\ result'[i].message.text = "S3 Event trigger was for a non-file object"
               /\ calls'[i] = <<>>
               /\ UNCHANGED << tags, last_update_time, dirs, files, conf >> ]_vars

C6_Witness ==
    \E i \in Invs :
        /\ Ended(i)
        /\ event[i].key = <<"d", "%2F">>
        /\ result[i].status = SKIP
        /\ calls[i] = <<>>

\* C7: when the status check reads the SKIP sentinel, or reports the object
\* as not found, the handler returns SKIP respectively DELETED after that one
\* tag read, with no other call and no change to tags or file system.
C7_SkipDeletedShortCircuit ==
    /\ [](\A i \in Invs :
            (Len(calls[i]) >= 1 /\ pc[i] # "get_status") =>
                /\ (calls[i][1].out = "ok" /\ calls[i][1].status = SKIP)
                      => /\ Ended(i) /\ result[i].kind = "returned"
                         /\ result[i].status = SKIP
                         /\ Len(calls[i]) = 1
                /\ (calls[i][1].out \in {"NoSuchKey", "404"})
                      => /\ Ended(i) /\ result[i].kind = "returned"
                         /\ result[i].status = DELETED
                         /\ Len(calls[i]) = 1)
    /\ [][ \A i \in Invs :
             (pc[i] = "get_status" /\ pc'[i] = "done")
                => UNCHANGED << tags, last_update_time, dirs, files, conf >> ]_vars

C7_Witness ==
    \E i \in Invs :
        /\ Ended(i) /\ result[i].status = DELETED
        /\ Len(calls[i]) = 1 /\ calls[i][1].out = "NoSuchKey"

\* C8: with invocations running one after the other, an invocation runs the
\* refresh tool if and only if, at its definition-update step, at least
\* REFRESH_INTERVAL seconds have passed since the start of the last successful
\* refresh.
C8_Throttle ==
    \A i \in Invs :
        /\ pc[i] = "freshclam_run"
              => loc[i].current_time - lastRefreshOk >= REFRESH_INTERVAL
        /\ (pc[i] = "scan" /\ CallsOf(i, "freshclam") = {})
              => loc[i].current_time - lastRefreshOk < REFRESH_INTERVAL

C8_Witness ==
    \E i \in Invs :
        /\ pc[i] = "scan" /\ CallsOf(i, "freshclam") = {}
        /\ lastRefreshOk > 0
        /\ loc[i].current_time > lastRefreshOk

\* C9: under any interleaving the last-refresh timestamp never decreases, and
\* it changes only in the step in which a refresh-tool run exits with code 0.
C9_TimestampMonotonic ==
    [][ /\ last_update_time' >= last_update_time
        /\ last_update_time' # last_update_time =>
              \E i \in Invs :
                  /\ pc[i] = "freshclam_run"
                  /\ Len(calls'[i]) = Len(calls[i]) + 1
                  /\ calls'[i][Len(calls'[i])].op = "freshclam"
                  /\ calls'[i][Len(calls'[i])].out = "exit 0" ]_vars

\* the call of clamscan of invocation i
ScanCall(i) == CHOOSE k \in CallsOf(i, "clamscan") : TRUE

\* the tag writes invocation i issued after its call of clamscan
PutsAfterScan(i) == { k \in CallsOf(i, "put_object_tagging") : k > ScanCall(i) }

\* after clamscan exited with code `out`, only `status` is written, and once the
\* invocation has ended it has written it and, the write having succeeded,
\* ended in the way `kind` with that status; ifFailed tells what is required
\* when the write failed
ScanOutcome(i, out, status, kind, ifFailed) ==
    (CallsOf(i, "clamscan") # {} /\ calls[i][ScanCall(i)].out = out) =>
        /\ \A k \in PutsAfterScan(i) : calls[i][k].status = status
        /\ Ended(i) =>
              /\ Cardinality(PutsAfterScan(i)) = 1
              /\ \A k \in PutsAfterScan(i) :
                    IF calls[i][k].out = "ok"
                    THEN /\ result[i].kind = kind
                         /\ result[i].status = status
                         /\ tagAtEnd[i] = status
                         /\ result[i].message.output = "clamscan stdout"
                    ELSE ifFailed

LastCall(i) == calls[i][Len(calls[i])]

\* the walk of the payload directory of invocation i found a file larger
\* than MAX_BYTES
OversizeFound(i) ==
    \E k \in CallsOf(i, "walk") : calls[i][k].out = "large files"

\* C11: when the event declares a size above MAX_BYTES, extraction succeeds and
\* a file larger than MAX_BYTES remains under the payload directory, the
\* invocation raises the failure record with status ERROR and the names of the
\* large files, the object named by the event is tagged ERROR and clamscan is
\* never called.
C11_OversizeArchive ==
    \A i \in Invs :
        (Ended(i) /\ event[i].size > MAX_BYTES /\ OversizeFound(i))
            => /\ result[i].kind = "raised"
               /\ result[i].status = ERROR
               /\ result[i].message.names # {}
               /\ tagAtEnd[i] = ERROR
               /\ CallsOf(i, "clamscan") = {}

\* number of tags of a tag set with the key scan-status
ScanStatusCount(tag_set) ==
    Cardinality({ k \in 1..Len(tag_set) : tag_set[k].Key = ScanStatusKey })

\* C12: a set_status whose tag read succeeded and which writes the status the
\* object already carries from the write before leaves the tag set of the
\* object as it was, with exactly one scan-status tag.
C12_IdempotentTagging ==
    [][ \A i \in Invs :
          LET t == Resolve(loc[i].ss_version) IN
          (/\ pc[i] = "ss_put" /\ pc'[i] # "ss_put"
           /\ LastCall(i).out = "ok"
           /\ calls'[i][Len(calls'[i])].out = "ok"
           /\ get_tag_value(tags[t], ScanStatusKey) = loc[i].ss_status)
            => /\ tags'[t] = tags[t]
               /\ get_tag_value(tags'[t], ScanStatusKey) = loc[i].ss_status
               /\ ScanStatusCount(tags'[t]) = 1 ]_vars

C12_Witness ==
    \E i \in Invs :
        /\ Len(calls[i]) = 3
        /\ calls[i][1].out = "ok" /\ calls[i][1].status = INPROGRESS
        /\ calls[i][2].op = "get_object_tagging" /\ calls[i][2].out = "ok"
        /\ calls[i][3].op = "put_object_tagging" /\ calls[i][3].out = "ok"
        /\ calls[i][3].status = INPROGRESS
        /\ ScanStatusCount(tags[Target(i)]) = 1

\* C13: set_status issues exactly one get_object_tagging and then one
\* put_object_tagging, each with the VersionId it was given or with none when
\* it was given none; when the read succeeded, the tag set sent has the keys
\* of the object's tags plus scan-status, every other tag with its value
\* unchanged, and scan-status with the new status.
C13_ReadMergeWrite ==
    [][ \A i \in Invs :
          LET t == Resolve(loc[i].ss_version)
              sent == calls'[i][Len(calls'[i])]
          IN
          /\ (pc[i] = "ss_get" /\ pc'[i] # "ss_get")
                => /\ pc'[i] = "ss_put"
                   /\ calls'[i] = Append(calls[i], sent)
                   /\ sent.op = "get_object_tagging"
                   /\ sent.version = loc[i].ss_version
          /\ (pc[i] = "ss_put" /\ pc'[i] # "ss_put")
                => /\ pc'[i] # "ss_get"
                   /\ calls'[i] = Append(calls[i], sent)
                   /\ LastCall(i).op = "get_object_tagging"
                   /\ sent.op = "put_object_tagging"
                   /\ sent.version = loc[i].ss_version
                   /\ LastCall(i).out = "ok"
                         => /\ TagKeys(sent.tagset) = TagKeys(tags[t]) \cup {ScanStatusKey}
                            /\ Len(sent.tagset) = Cardinality(TagKeys(sent.tagset))
                            /\ \A k \in TagKeys(tags[t]) \ {ScanStatusKey} :
                                  get_tag_value(sent.tagset, k) = get_tag_value(tags[t], k)
                            /\ get_tag_value(sent.tagset, ScanStatusKey) = loc[i].ss_status ]_vars

C13_Witness ==
    \E i \in Invs :
        /\ pc[i] = "create_payload"
        /\ Len(calls[i]) = 3
        /\ calls[i][2].out = "ok"
        /\ calls[i][3].out = "ok"
        /\ calls[i][3].tagset = <<Tag("owner", "team"), Tag(ScanStatusKey, INPROGRESS)>>
        /\ tags[Target(i)] = calls[i][3].tagset

\* the tag reads of set_status of invocation i that failed
FailedTagReads(i) ==
    { k \in CallsOf(i, "get_object_tagging") : k > 1 /\ calls[i][k].out = "ClientError" }

\* after a failed tag read of set_status, the next call is the tag write and
\* it sends exactly the scan-status tag; wrote tells what is required of the
\* invocation once that write has been made, given its outcome
ReadFailureNotFatal(i, wrote(_)) ==
    \A k \in FailedTagReads(i) :
        /\ ~(Ended(i) /\ Len(calls[i]) = k)
        /\ Len(calls[i]) > k
              => /\ calls[i][k + 1].op = "put_object_tagging"
                 /\ Len(calls[i][k + 1].tagset) = 1
                 /\ calls[i][k + 1].tagset[1].Key = ScanStatusKey
                 /\ calls[i][k + 1].tagset[1].Value \in {INPROGRESS, CLEAN, INFECTED, ERROR}
                 /\ Len(calls[i]) = k + 1 => wrote(calls[i][k + 1].out)

WrittenStatuses == {INPROGRESS, CLEAN, INFECTED, ERROR}

\* C15: the status check returns the value of the scan-status tag when the
\* tag set has one, None when it has none, and DELETED when the tagging call
\* fails with NoSuchKey or 404; the check itself never ends the invocation
\* with a failure.
C15_GetStatus ==
    [][ \A i \in Invs :
          (pc[i] = "get_status" /\ pc'[i] # "get_status") =>
            LET read == calls'[i][1]
                tag_set == tags[Resolve(loc[i].version_id)]
                present == ScanStatusKey \in TagKeys(tag_set)
                returned == IF pc'[i] = "done" THEN result'[i].status ELSE loc'[i].status
            IN  /\ Len(calls'[i]) = 1
                /\ read.op = "get_object_tagging"
                /\ (read.out = "ok" /\ present)
                      => \E k \in 1..Len(tag_set) :
                            tag_set[k].Key = ScanStatusKey /\ tag_set[k].Value = returned
                /\ (read.out = "ok" /\ ~present) => returned = None
                /\ read.out \in {"NoSuchKey", "404"}
                      => /\ returned = DELETED
                         /\ pc'[i] = "done"
                /\ pc'[i] = "done" => result'[i].kind = "returned" ]_vars

C15_Witness ==
    \E i \in Invs :
        /\ pc[i] = "ss_get"
        /\ Len(calls[i]) = 1
        /\ calls[i][1].out = "ok"
        /\ tags[Target(i)] = <<Tag("owner", "team"), Tag(ScanStatusKey, INPROGRESS)>>
        /\ loc[i].status = INPROGRESS

\* C16: every scan-status the function sends in a tag write, and every value
\* a step changes the scan-status of an object to, is IN PROGRESS, CLEAN,
\* INFECTED or ERROR; an invocation that returned SKIP or DELETED has written
\* nothing.
C16_WrittenStatuses ==
    /\ [](\A i \in Invs :
            /\ \A k \in CallsOf(i, "put_object_tagging") :
                  /\ calls[i][k].status \in WrittenStatuses
                  /\ get_tag_value(calls[i][k].tagset, ScanStatusKey) \in WrittenStatuses
            /\ (Ended(i) /\ result[i].status \in {SKIP, DELETED})
                  => CallsOf(i, "put_object_tagging") = {})
    /\ [][ \A v \in Versions :
             tags'[v] # tags[v]
                => \E k \in 1..Len(tags'[v]) :
                      /\ tags'[v][k].Key = ScanStatusKey
                      /\ tags'[v][k].Value \in WrittenStatuses ]_vars

C16_Witness ==
    \E i \in Invs :
        /\ Ended(i)
        /\ result[i].status = DELETED
        /\ CallsOf(i, "put_object_tagging") = {}
        /\ \E v \in Versions : get_tag_value(tags[v], ScanStatusKey) = ERROR

\* the event of invocation i names a version: versionId is there and is not "null"
EventNamesVersion(i) == event[i].versionId \notin {"absent", "null"}

\* C17: the record the handler returns has version_id, equal to the versionId
\* of the event, exactly when the event names a version; when the event names
\* none, no call of the invocation carries a VersionId.
C17_VersionInRecord ==
    \A i \in Invs :
        /\ (Ended(i) /\ result[i].kind = "returned")
              => result[i].version_id =
                    (IF EventNamesVersion(i) THEN event[i].versionId ELSE "absent")
        /\ ~EventNamesVersion(i)
              => \A k \in 1..Len(calls[i]) : calls[i][k].version = None

C17_Witness ==
    \E i \in Invs :
        /\ Ended(i)
        /\ result[i].kind = "returned"
        /\ event[i].versionId = "v1"
        /\ result[i].status = INFECTED
        /\ result[i].version_id = "v1"

\* the step of the scan path a call belongs to, 0 for a call that is part of
\* a step (the tag read of set_status, the removal of the archive, the walk)
\* or of the failure report
Stage(i, k) ==
    LET c == calls[i][k] IN
    IF k = 1 /\ c.op = "get_object_tagging" THEN 1
    ELSE IF c.op = "put_object_tagging" /\ c.status = INPROGRESS THEN 2
    ELSE IF c.op = "makedirs" /\ c.path.root = "payload" THEN 3
    ELSE IF c.op = "makedirs" /\ c.path.root = "tmp" THEN 4
    ELSE IF c.op = "download_file" THEN 5
    ELSE IF c.op = "7za" THEN 6
    ELSE IF c.op = "makedirs" /\ c.path.root = "defs" THEN 7
    ELSE IF c.op = "freshclam" THEN 8
    ELSE IF c.op = "clamscan" THEN 9
    ELSE IF c.op = "put_object_tagging" /\ c.status \in {CLEAN, INFECTED} THEN 10
    ELSE 0

\* call k of invocation i failed fatally: a failure of a step other than the
\* status read, or a walk that found a file larger than MAX_BYTES
CallFailed(i, k) ==
    \/ /\ Stage(i, k) > 1
       /\ calls[i][k].out \notin GoodOutcomes
    \/ calls[i][k].op = "walk" /\ calls[i][k].out = "large files"

\* C18: in one invocation the steps of the scan path are taken in the order
\* status read, IN PROGRESS write, payload directory, temp directory, fetch,
\* expansion, definitions, refresh, scan, verdict write, each at most once:
\* every call that starts a step comes after all calls of earlier rank and
\* not after a failed step; the fetch comes after a successful IN PROGRESS
\* write and the scan after a successful fetch.
C18_StepOrder ==
    [][ \A i \in Invs :
          (Len(calls'[i]) > Len(calls[i])) =>
            LET n == Len(calls[i]) IN
            \A m \in (n + 1)..Len(calls'[i]) :
                LET rank == Stage(i, m)' IN
                rank > 0 =>
                    /\ \A k \in 1..(m - 1) :
                          /\ Stage(i, k)' < rank
                          /\ ~CallFailed(i, k)'
                    /\ rank = 5 => \E k \in 1..n : Stage(i, k) = 2 /\ calls[i][k].out = "ok"
                    /\ rank = 9 => \E k \in 1..n : Stage(i, k) = 5 /\ calls[i][k].out = "ok" ]_vars

C18_Witness ==
    \E i \in Invs :
        /\ Ended(i)
        /\ result[i].kind = "returned"
        /\ { Stage(i, k) : k \in 1..Len(calls[i]) } = 0..10

\* the tag writes of invocation i that succeeded and wrote a terminal status
TerminalPuts(i) ==
    { k \in CallsOf(i, "put_object_tagging") :
        calls[i][k].out = "ok" /\ calls[i][k].status \in {CLEAN, INFECTED, ERROR} }

\* C19: an invocation deletes a directory only after it has written a
\* terminal status, and an invocation that wrote a terminal status has
\* deleted its workspace by the time it ends.
C19_PurgeAfterTerminalTag ==
    \A i \in Invs :
        /\ \A k \in CallsOf(i, "rmtree") : \E m \in TerminalPuts(i) : m < k
        /\ (Ended(i) /\ TerminalPuts(i) # {})
              => \E k \in CallsOf(i, "rmtree") :
                    calls[i][k].path \in {payload_path(i), tmp_path(i)}

\* the failed calls of invocation i for which report_failure is called
ReportedFailures(i) ==
    { k \in 1..Len(calls[i]) :
        \/ calls[i][k].op = "makedirs" /\ calls[i][k].out = "OSError"
        \/ calls[i][k].op = "download_file" /\ calls[i][k].out = "ClientError"
        \/ calls[i][k].op = "7za" /\ calls[i][k].out = "exit other"
        \/ calls[i][k].op = "walk" /\ calls[i][k].out = "large files"
        \/ calls[i][k].op = "freshclam" /\ calls[i][k].out = "exit other"
        \/ calls[i][k].op = "clamscan" /\ calls[i][k].out = "exit other" }

\* C20: report_failure makes one set_status call with ERROR and the version it
\* was given, then deletes the path it was given once, then raises the record
\* with status ERROR, the message and that version; it never returns.
C20_ReportFailure ==
    \A i \in Invs :
        \A k \in ReportedFailures(i) :
            Ended(i) =>
                /\ Len(calls[i]) = k + 3
                /\ calls[i][k + 1].op = "get_object_tagging"
                /\ calls[i][k + 2].op = "put_object_tagging"
                /\ calls[i][k + 2].status = ERROR
                /\ calls[i][k + 2].version = calls[i][k + 1].version
                /\ calls[i][k + 3].op = "rmtree"
                /\ calls[i][k + 3].out = "ok"
                /\ result[i].kind = "raised"
                /\ result[i].status = ERROR
                /\ result[i].message.text # None
                /\ result[i].version_id = (IF calls[i][k + 2].version # None
                                           THEN calls[i][k + 2].version ELSE "absent")

\* ------------------------------------------------------------------ claims C21-C30
\* C21: download_object calls download_file once, with Bucket, Key and
\* Filename = <download_path>/<key>, and with ExtraArgs = {"VersionId": v} when
\* a version identifier v is given; after a client error of download_file
\* report_failure is called with that version identifier.
C21_DownloadCall ==
    \A i \in Invs :
        /\ Cardinality(CallsOf(i, "download_file")) <= 1
        /\ \A k \in CallsOf(i, "download_file") :
              /\ calls[i][k].path = Join(payload_path(i), unquote_plus(event[i].key))
              /\ calls[i][k].kwargs =
                    {"Bucket", "Key", "Filename"} \cup
                        (IF EventNamesVersion(i) THEN {"ExtraArgs"} ELSE {})
              /\ (calls[i][k].out = "ClientError" /\ Len(calls[i]) >= k + 2)
                    => /\ calls[i][k + 2].op = "put_object_tagging"
                       /\ calls[i][k + 2].status = ERROR
                       /\ calls[i][k + 2].version = EventVersion(i)

\* C22: whatever the interleaving, the refresh tool is not started within
\* REFRESH_INTERVAL seconds of the last successful refresh.
C22_RefreshOncePerWindow ==
    [][ \A i \in Invs :
          (pc[i] = "freshclam_run" /\ pc'[i] # "freshclam_run")
            => (lastRefreshOk = 0 \/ now - lastRefreshOk >= REFRESH_INTERVAL) ]_vars

\* the refresh tool of invocation i exited with a code other than 0
RefreshFailed(i) ==
    \E k \in CallsOf(i, "freshclam") : calls[i][k].out = "exit other"

\* C23: an invocation whose refresh tool exits non-zero ends with the object
\* named by its event tagged ERROR and with the failure record, and the
\* last-refresh timestamp is still that of the last successful refresh, so
\* that the failed attempt does not throttle the next one.
C23_FailedRefresh ==
    \A i \in Invs :
        (Ended(i) /\ RefreshFailed(i))
            => /\ result[i].kind = "raised"
               /\ result[i].status = ERROR
               /\ tagAtEnd[i] = ERROR
               /\ last_update_time = lastRefreshOk

\* the scan-status of the object the event of invocation i names
StatusOfEventObject(i) ==
    get_tag_value(tags[Resolve(EventVersion(i))], ScanStatusKey)

\* C24: an event delivered for an object that an earlier invocation left at
\* IN PROGRESS leads to that object carrying CLEAN, INFECTED or ERROR, unless a
\* tag write of the new invocation fails or the object is reported as gone.
C24_RedeliveryCompletes ==
    \A i \in Invs :
        (pc[i] = "get_status" /\ StatusOfEventObject(i) = INPROGRESS)
            ~> \/ StatusOfEventObject(i) \in {CLEAN, INFECTED, ERROR}
               \/ /\ Ended(i)
                  /\ \/ result[i].status = DELETED
                     \/ result[i].error = "ClientError"

\* C25: every path a call of an invocation works on lies under its own
\* payload directory, under its own temp directory or under the definitions
\* directory.
C25_OwnPathsOnly ==
    \A i \in Invs :
        \A k \in 1..Len(calls[i]) :
            calls[i][k].path # NoPath
                => \/ Owned(calls[i][k].path, i)
                   \/ Under(calls[i][k].path, definitions_path)

\* C28: a set_status whose tag read succeeded leaves every tag of the object
\* whose key is not scan-status in place with its value, also when the tag was
\* added by another writer after the read.
C28_OtherTagsSurvive ==
    [][ \A i \in Invs :
          LET t == Resolve(loc[i].ss_version) IN
          (/\ pc[i] = "ss_put" /\ pc'[i] # "ss_put"
           /\ LastCall(i).out = "ok"
           /\ calls'[i][Len(calls'[i])].out = "ok")
            => \A k \in 1..Len(tags[t]) :
                  tags[t][k].Key # ScanStatusKey
                    => \E m \in 1..Len(tags'[t]) : tags'[t][m] = tags[t][k] ]_vars

\* C26: no invocation deletes the shared definitions directory or anything in
\* it: every directory an invocation removes, in the success-path cleanup and
\* in the failure report alike, is its own payload or temp directory, also
\* when the failure reported is that of creating a directory under the
\* definitions path.
C26_DefinitionsNeverDeleted ==
    [][ \A p \in dirs : Under(p, definitions_path) => p \in dirs' ]_vars

\* every tag write the invocations have issued has succeeded
AllPutsOk ==
    \A i \in Invs : \A k \in CallsOf(i, "put_object_tagging") : calls[i][k].out = "ok"

\* the scan-status tag of the unversioned object the deliveries are about
StatusOfObject == get_tag_value(tags[Resolve(None)], ScanStatusKey)

\* C27 as stated: once every delivery for an unversioned object has run to
\* completion with its tag writes succeeding, the scan-status tag of the object
\* is CLEAN, INFECTED or ERROR.
C27_NeverLeftInProgress ==
    ((\A i \in Invs : Ended(i)) /\ AllPutsOk)
      => StatusOfObject \in {CLEAN, INFECTED, ERROR}

\* C27 amended: once every delivery for an unversioned object has run to
\* completion with its tag writes succeeding, the scan-status tag is never
\* IN PROGRESS, and it is CLEAN, INFECTED or ERROR when at least one of the
\* deliveries got past the status check (the object was found and was not
\* marked to be skipped).
C27_NeverLeftInProgressAmended ==
    ((\A i \in Invs : Ended(i)) /\ AllPutsOk)
      => /\ StatusOfObject # INPROGRESS
         /\ (\E i \in Invs : EnteredScanPath(i))
              => StatusOfObject \in {CLEAN, INFECTED, ERROR}

\* two overlapping deliveries both ran the scan engine, came to different
\* verdicts and ended
C27_Witness ==
    /\ \A i \in Invs : Ended(i) /\ CallsOf(i, "clamscan") # {}
    /\ AllPutsOk
    /\ \E i, j \in Invs : result[i].status = CLEAN /\ result[j].status = INFECTED
    /\ StatusOfObject \in {CLEAN, INFECTED}

\* invocation i starts the scan engine in this step
ScanStarts(i) ==
    /\ Len(calls'[i]) > Len(calls[i])
    /\ calls'[i][Len(calls[i]) + 1].op = "clamscan"

\* C29: the scan engine is never started before a definition refresh has
\* succeeded in the execution context: while no refresh has succeeded, an
\* invocation that reaches the definition update runs the refresh tool; and an
\* invocation goes on to the scan only from a refresh it ran itself that exited
\* with 0, or from the throttle when a refresh succeeded less than
\* REFRESH_INTERVAL seconds before the time it read.
C29_ScanAfterRefresh ==
    [][ \A i \in Invs :
          /\ (pc[i] = "freshclam" /\ pc'[i] # "freshclam" /\ lastRefreshOk = 0)
                => pc'[i] = "freshclam_run"
          /\ (pc[i] # "scan" /\ pc'[i] = "scan")
                => \/ /\ pc[i] = "freshclam_run"
                      /\ calls'[i][Len(calls'[i])].op = "freshclam"
                      /\ calls'[i][Len(calls'[i])].out = "exit 0"
                      /\ lastRefreshOk' = loc[i].current_time
                   \/ /\ pc[i] = "freshclam"
                      /\ lastRefreshOk > 0
                      /\ now - lastRefreshOk < REFRESH_INTERVAL
          /\ ScanStarts(i) => (pc[i] = "scan" /\ lastRefreshOk > 0) ]_vars

\* an invocation has run the scan engine without running the refresh tool,
\* on definitions refreshed by an earlier invocation
C29_Witness ==
    \E i \in Invs :
        /\ CallsOf(i, "clamscan") # {}
        /\ CallsOf(i, "freshclam") = {}
        /\ lastRefreshOk > 0

\* C30: archive expansion is attempted exactly when the size declared in the
\* event is greater than MAX_BYTES: then the step starts 7za; otherwise the
\* step issues no call, leaves every file and directory in place and goes on
\* to the definitions directory, whatever the size of the file that was
\* fetched.
C30_ExpandOnlyWhenDeclaredLarge ==
    [][ \A i \in Invs :
          (pc[i] = "expand" /\ pc'[i] # "expand")
            => IF event[i].size > MAX_BYTES
               THEN /\ Len(calls'[i]) > Len(calls[i])
                    /\ calls'[i][Len(calls[i]) + 1].op = "7za"
               ELSE /\ calls'[i] = calls[i]
                    /\ files' = files
                    /\ dirs' = dirs
                    /\ pc'[i] = "create_defs" ]_vars

\* an invocation is past the expansion step with a declared size of MAX_BYTES
\* and a fetched file that is larger, and no 7za call was made
C30_Witness ==
    \E i \in Invs :
        /\ pc[i] = "create_defs"
        /\ event[i].size = MAX_BYTES
        /\ \E f \in files : Under(f.path, payload_path(i)) /\ f.size > MAX_BYTES
        /\ CallsOf(i, "7za") = {}

\* ------------------------------------------------------------------ claims C31-C36
\* C31: when 7za is run, an exit code outside {0, 1} ends the invocation with
\* the raised ERROR record and the ERROR tag on the object of the event, and no
\* archive deletion, size walk or scan is made; after exit code 0 or 1 the
\* archive file is removed next, before the walk, and is not seen again.
C31_ExpansionOutcome ==
    \A i \in Invs : \A k \in CallsOf(i, "7za") :
        IF calls[i][k].out = "exit other"
        THEN /\ CallsOf(i, "remove") = {}
             /\ CallsOf(i, "walk") = {}
             /\ CallsOf(i, "clamscan") = {}
             /\ Ended(i) => /\ result[i].kind = "raised"
                            /\ result[i].status = ERROR
                            /\ tagAtEnd[i] = ERROR
        ELSE /\ Len(calls[i]) >= k + 2
             /\ calls[i][k + 1].op = "remove"
             /\ calls[i][k + 1].path = calls[i][k].path
             /\ calls[i][k + 2].op = "walk"
             /\ \A f \in files : f.path # calls[i][k].path

\* invocation i has received its event and has not ended
Running(i) == pc[i] \notin {"idle", "done", "gone"}

\* the terminal state invocation i has ended in: SKIPPED, ALREADY_DELETED,
\* TAGGED_CLEAN and TAGGED_INFECTED are the records returned with these
\* statuses, FAILED is the ERROR record raised by report_failure; None when
\* the invocation has ended in another way
TerminalState(i) ==
    IF result[i].kind = "returned" /\ result[i].status \in {SKIP, DELETED, CLEAN, INFECTED}
      THEN result[i].status
    ELSE IF result[i].kind = "raised" /\ result[i].status = ERROR THEN "FAILED"
    ELSE None

\* C32: every invocation that has received its event eventually ends; an
\* invocation that has ended is in one of the terminal states SKIPPED,
\* ALREADY_DELETED, TAGGED_CLEAN, TAGGED_INFECTED and FAILED; and an invocation
\* that has ended takes no further step of the handler.
C32_ReachesTerminalState ==
    /\ \A i \in Invs : Running(i) ~> Ended(i)
    /\ [](\A i \in Invs : Ended(i) => TerminalState(i) # None)
    /\ [][ \A i \in Invs : Ended(i) => (pc'[i] \in {"done", "gone"}
                                         /\ (pc'[i] = "done" => result'[i] = result[i])) ]_vars

\* invocation i has come to a terminal stage: the scan engine has run, or a
\* stage has failed and the failure is being reported
ReachedTerminalStage(i) == CallsOf(i, "clamscan") # {} \/ StageFailed(i)

\* C33: an invocation that came to a terminal stage and has ended has produced
\* one outcome, a returned record with status CLEAN or INFECTED or the raised
\* record with status ERROR; when a stage failed it is not a returned record;
\* and the outcome of an invocation, once produced, is not replaced.
C33_ExactlyOneOutcome ==
    /\ [](\A i \in Invs :
            (Ended(i) /\ ReachedTerminalStage(i))
              => /\ result[i].kind \in {"returned", "raised"}
                 /\ result[i].kind = "returned" => result[i].status \in {CLEAN, INFECTED}
                 /\ result[i].kind = "raised" => result[i].status = ERROR
                 /\ StageFailed(i) => result[i].kind # "returned")
    /\ [][ \A i \in Invs :
             (result[i].kind # "none" /\ pc'[i] # "gone") => result'[i] = result[i] ]_vars

\* the positions of the handler at which create_dir is called, the path it
\* is called with and the position after the call
CreateDirPcs == {"create_payload", "create_tmp", "create_defs"}

CreateDirPath(i) ==
    IF pc[i] = "create_payload" THEN payload_path(i)
    ELSE IF pc[i] = "create_tmp" THEN tmp_path(i)
    ELSE definitions_path

AfterCreateDir(i) ==
    IF pc[i] = "create_payload" THEN "create_tmp"
    ELSE IF pc[i] = "create_tmp" THEN "download"
    ELSE "freshclam"

\* C34: create_dir makes no call when the directory for the key exists under
\* the path it is given; otherwise it makes one makedirs call for that
\* directory, after which the directory and the given path exist; when
\* makedirs fails nothing is created and report_failure is entered with the
\* path given to create_dir, the text of the error and no version, and after
\* that only the calls of that one failure report follow and no record is
\* returned.
C34_CreateDir ==
    /\ [][ \A i \in Invs :
             (pc[i] \in CreateDirPcs /\ pc'[i] # pc[i])
               => LET download_path == CreateDirPath(i)
                      target == FullPath(unquote_plus(event[i].key), download_path)
                      n == Len(calls[i])
                  IN  IF target \in dirs
                      THEN /\ calls'[i] = calls[i]
                           /\ dirs' = dirs
                           /\ pc'[i] = AfterCreateDir(i)
                      ELSE /\ Len(calls'[i]) = n + 1
                           /\ calls'[i][n + 1].op = "makedirs"
                           /\ calls'[i][n + 1].path = target
                           /\ IF calls'[i][n + 1].out = "ok"
                              THEN /\ dirs \subseteq dirs'
                                   /\ target \in dirs'
                                   /\ download_path \in dirs'
                                   /\ pc'[i] = AfterCreateDir(i)
                              ELSE /\ dirs' = dirs
                                   /\ pc'[i] = "ss_get"
                                   /\ loc'[i].ss_status = ERROR
                                   /\ loc'[i].ss_version = None
                                   /\ loc'[i].rf_path = download_path
                                   /\ loc'[i].rf_msg.text = "OSError" ]_vars
    /\ [](\A i \in Invs : \A k \in CallsOf(i, "makedirs") :
             calls[i][k].out = "OSError"
               => /\ \A m \in (k + 1)..Len(calls[i]) :
                       calls[i][m].op \in {"get_object_tagging", "put_object_tagging", "rmtree"}
                  /\ Cardinality({ m \in (k + 1)..Len(calls[i]) :
                                     calls[i][m].op = "put_object_tagging" }) <= 1
                  /\ Cardinality({ m \in (k + 1)..Len(calls[i]) :
                                     calls[i][m].op = "rmtree" }) <= 1
                  /\ \A m \in (k + 1)..Len(calls[i]) :
                       calls[i][m].op = "put_object_tagging" => calls[i][m].status = ERROR
                  /\ result[i].kind # "returned")

\* for a key with a directory part the directory was created under the
\* payload path, the next creation failed and the invocation ended without
\* a record
C34_Witness ==
    \E i \in Invs : \E k \in CallsOf(i, "makedirs") :
        /\ Ended(i)
        /\ calls[i][k].out = "ok"
        /\ calls[i][k].path = Join(payload_path(i), <<"d">>)
        /\ Len(calls[i]) > k
        /\ calls[i][k + 1].op = "makedirs"
        /\ calls[i][k + 1].out = "OSError"
        /\ result[i].kind # "returned"

\* the calls of the download function with this operation
DefsCallsOf(op) == { k \in 1..Len(upd.calls) : upd.calls[k].op = op }

\* C35: in the download function every download precedes the freshclam run
\* and every upload follows it; freshclam runs once, also after a ClientError
\* of a download; an upload is made only after freshclam exited with 0; when
\* freshclam exits with another code the handler raises the record {source,
\* message}, makes no upload and leaves the bucket as it is.
C35_DefsOrder ==
    /\ [](/\ \A k \in DefsCallsOf("download_file"), m \in DefsCallsOf("freshclam") : k < m
          /\ \A m \in DefsCallsOf("freshclam"), n \in DefsCallsOf("upload_file") : m < n
          /\ Cardinality(DefsCallsOf("freshclam")) <= 1
          /\ upd.pc \in {"upload", "done"} => DefsCallsOf("freshclam") # {}
          /\ DefsCallsOf("upload_file") # {}
                => \E m \in DefsCallsOf("freshclam") : upd.calls[m].out = "exit 0"
          /\ \A m \in DefsCallsOf("freshclam") :
                upd.calls[m].out # "exit 0"
                  => /\ DefsCallsOf("upload_file") = {}
                     /\ upd.pc = "done"
                     /\ upd.result.kind = "raised"
                     /\ upd.result.source = "serverless-clamscan-update"
                     /\ upd.result.message # None)
    /\ [][ /\ (upd.pc = "download" /\ upd'.pc # "download") => upd'.pc = "freshclam"
           /\ defs_bucket' # defs_bucket
                => /\ Len(upd'.calls) = Len(upd.calls) + 1
                   /\ upd'.calls[Len(upd'.calls)].op = "upload_file"
                   /\ \E m \in DefsCallsOf("freshclam") : upd.calls[m].out = "exit 0" ]_vars

\* a download failed with a ClientError, freshclam still ran and exited with
\* 0, files were uploaded and the handler returned
C35_Witness ==
    /\ upd.pc = "done"
    /\ upd.result.kind = "returned"
    /\ \E k \in DefsCallsOf("download_file") : upd.calls[k].out = "ClientError"
    /\ \E m \in DefsCallsOf("freshclam") : upd.calls[m].out = "exit 0"
    /\ \E n \in DefsCallsOf("upload_file") : upd.calls[n].out = "ok"

\* C36: when the custom resource handler is done with a request it has made
\* one PUT to the response URL; for Create it has invoked the download function
\* once and the status sent is SUCCESS when the result has no FunctionError and
\* FAILED when it has one or when invoke raised a ClientError; for every
\* other RequestType it has invoked nothing and the status sent is SUCCESS.
C36_OneResponse ==
    cr.pc = "done"
      => /\ Len(cr.puts) = 1
         /\ IF cr.type = "Create"
            THEN /\ cr.invokes = 1
                 /\ cr.puts[1].Status = (IF cr.invoked = "ok" THEN "SUCCESS" ELSE "FAILED")
            ELSE /\ cr.invokes = 0
                 /\ cr.puts[1].Status = "SUCCESS"

=============================================================================
